---- MODULE Spec2Model ----
(***************************************************************************)
(* Model of cloud_main.py: the rule-sheet validator (validate_excel), the  *)
(* compiler (process_excel_file), the document writer (write_yaml_files)   *)
(* and the driver over the spreadsheets of a bucket location (main,        *)
(* validate_directory, list_all_valid_excels).                             *)
(*                                                                         *)
(* A Python str is a sequence of one-character strings, so that strip,     *)
(* upper, lower, replace, split, float and string comparison are computed  *)
(* character by character as Python computes them.  An empty spreadsheet   *)
(* cell read with dtype=str is NaN.                                        *)
(***************************************************************************)
EXTENDS Integers, Sequences, FiniteSets, TLC

VARIABLES
    column_level_df,    \* the ColumnLevel sheet: [columns, rows]
    table_level_df,     \* the TableLevel sheet: [columns, rows]
    pc,                 \* position of the driver: validate, process, write, done
    valid_excel_sheet,  \* first component of validate_excel's result
    validation_message, \* second component of validate_excel's result
    yaml_content_dict,  \* process_excel_file's insertion-ordered dict, as a sequence of entries
    uploaded,           \* the blobs uploaded so far, in upload order: [name, content]
    blobs,              \* the listing of the bucket location, in name order
    valid_excel_list,   \* names of the spreadsheets validate_excel accepted
    file,               \* index in blobs of the loop of list_all_valid_excels
    elements,           \* index in valid_excel_list of the loop of main
    items,              \* index in yaml_content_dict of the loop of write_yaml_files
    printed             \* the lines printed so far

driver_vars == <<blobs, valid_excel_list, file, elements, items, printed>>

vars == <<column_level_df, table_level_df, pc, valid_excel_sheet,
          validation_message, yaml_content_dict, uploaded, driver_vars>>

----------------------------------------------------------------------------
(* Bounds of the model.                                                    *)

MaxColumnRows == 2
MaxTableRows == 2
MaxEdits == 2

----------------------------------------------------------------------------
(* Python strings.                                                         *)

Range(s) == {s[i] : i \in DOMAIN s}

\* The characters of the model in code-point order (Python compares str by code point).
CodePoints ==
    <<" ", "*", ",", "-", ".", "/", "0", "1", "2", "3", "4", "5", "6", "7", "8", "9", ":",
      "A", "B", "C", "D", "E", "F", "G", "H", "I", "J", "K", "L", "M",
      "N", "O", "P", "Q", "R", "S", "T", "U", "V", "W", "X", "Y", "Z", "_",
      "a", "b", "c", "d", "e", "f", "g", "h", "i", "j", "k", "l", "m",
      "n", "o", "p", "q", "r", "s", "t", "u", "v", "w", "x", "y", "z", "~">>

Ord == [c \in Range(CodePoints) |-> CHOOSE i \in DOMAIN CodePoints : CodePoints[i] = c]

LowerCase == SubSeq(CodePoints, 45, 70)
UpperCase == SubSeq(CodePoints, 18, 43)

UpperMap == [c \in Range(CodePoints) |->
                IF c \in Range(LowerCase)
                THEN UpperCase[CHOOSE i \in DOMAIN LowerCase : LowerCase[i] = c]
                ELSE c]

LowerMap == [c \in Range(CodePoints) |->
                IF c \in Range(UpperCase)
                THEN LowerCase[CHOOSE i \in DOMAIN UpperCase : UpperCase[i] = c]
                ELSE c]

\* str.upper() and str.lower()
Upper(s) == [i \in DOMAIN s |-> UpperMap[s[i]]]
Lower(s) == [i \in DOMAIN s |-> LowerMap[s[i]]]

\* str.strip(): leading and trailing whitespace removed
RECURSIVE LStrip(_)
LStrip(s) == IF s # <<>> /\ Head(s) = " " THEN LStrip(Tail(s)) ELSE s

RECURSIVE RStrip(_)
RStrip(s) == IF s # <<>> /\ s[Len(s)] = " " THEN RStrip(SubSeq(s, 1, Len(s) - 1)) ELSE s

Strip(s) == RStrip(LStrip(s))

\* str.replace(old, new) for a one-character old
RECURSIVE Replace(_, _, _)
Replace(s, old, new) ==
    IF s = <<>> THEN <<>>
    ELSE (IF Head(s) = old THEN new ELSE <<Head(s)>>) \o Replace(Tail(s), old, new)

\* str.split(sep) for a one-character sep: always at least one part
RECURSIVE SplitFrom(_, _, _)
SplitFrom(s, sep, cur) ==
    IF s = <<>> THEN <<cur>>
    ELSE IF Head(s) = sep THEN <<cur>> \o SplitFrom(Tail(s), sep, <<>>)
    ELSE SplitFrom(Tail(s), sep, Append(cur, Head(s)))

Split(s, sep) == SplitFrom(s, sep, <<>>)

\* a < b on Python str: lexicographic by code point
RECURSIVE StrLess(_, _)
StrLess(a, b) ==
    IF b = <<>> THEN FALSE
    ELSE IF a = <<>> THEN TRUE
    ELSE IF Head(a) = Head(b) THEN StrLess(Tail(a), Tail(b))
    ELSE Ord[Head(a)] < Ord[Head(b)]

----------------------------------------------------------------------------
(* pandas cells.                                                           *)

\* The missing value of an empty cell; no Python str equals it.
NaN == <<"NaN">>

\* pd.notna / pd.isna
NotNa(v) == v # NaN
IsNa(v) == v = NaN

\* str(value): NaN prints as "nan"
Str(v) == IF v = NaN THEN <<"n", "a", "n">> ELSE v

\* Series == value: NaN equals nothing, not even NaN
CellEq(a, b) == a # NaN /\ b # NaN /\ a = b

\* DataFrame.fillna('')
FillNa(v) == IF v = NaN THEN <<>> ELSE v

----------------------------------------------------------------------------
(* float(): optional surrounding whitespace, optional sign, then "nan",    *)
(* "inf", "infinity" (any case) or decimal digits with at most one point.  *)
(* A number is kept exactly, as num / den with den a power of ten.         *)

Digits == SubSeq(CodePoints, 7, 16)
IsDigit(c) == c \in Range(Digits)
DigitVal(c) == Ord[c] - Ord["0"]

RECURSIVE DigitsValue(_, _)
DigitsValue(s, acc) ==
    IF s = <<>> THEN acc ELSE DigitsValue(Tail(s), acc * 10 + DigitVal(Head(s)))

RECURSIVE Pow10(_)
Pow10(n) == IF n = 0 THEN 1 ELSE 10 * Pow10(n - 1)

ValueError == [kind |-> "ValueError", neg |-> FALSE, num |-> 0, den |-> 1]

FloatUnsigned(t, neg) ==
    LET l == Lower(t)
        parts == Split(t, ".")
        all == IF Len(parts) = 2 THEN parts[1] \o parts[2] ELSE t
    IN  IF l = <<"n", "a", "n">>
        THEN [kind |-> "nan", neg |-> neg, num |-> 0, den |-> 1]
        ELSE IF l = <<"i", "n", "f">> \/ l = <<"i", "n", "f", "i", "n", "i", "t", "y">>
        THEN [kind |-> "inf", neg |-> neg, num |-> 0, den |-> 1]
        ELSE IF Len(parts) <= 2 /\ all # <<>> /\ \A i \in DOMAIN all : IsDigit(all[i])
        THEN [kind |-> "num", neg |-> neg, num |-> DigitsValue(all, 0),
              den |-> IF Len(parts) = 2 THEN Pow10(Len(parts[2])) ELSE 1]
        ELSE ValueError

Float(s) ==
    LET t == Strip(s)
    IN  IF t = <<>> THEN ValueError
        ELSE IF Head(t) = "-" THEN FloatUnsigned(Tail(t), TRUE)
        ELSE FloatUnsigned(t, FALSE)

\* lo <= f <= hi for integers lo = 0 and hi; comparisons with nan are False
InClosedRange(f, hi) ==
    \/ f.kind = "num" /\ f.num = 0
    \/ f.kind = "num" /\ ~f.neg /\ f.num <= hi * f.den

\* truth value of a float: False exactly for zero
FloatTruthy(f) == ~(f.kind = "num" /\ f.num = 0)

----------------------------------------------------------------------------
(* Sheets.  A sheet is [columns, rows]: the header names it exposes and    *)
(* its records; a record has one cell per field below.                     *)
(*   project, dataset, table : 'GCP Project ID', 'Bigquery Dataset ID',    *)
(*                             'Bigquery Table Name'                       *)
(*   column, rule_name, rule_description, dq_rule, ignore_null, threshhold,*)
(*   range_min, strict_min, range_max, strict_max, set_values, regex, sql  *)
(*                           : the other ColumnLevel columns, in order     *)
(*   partition_filter, data_sampling, schedule_interval, export_project,   *)
(*   export_dataset, export_table : the other TableLevel columns, in order *)

column_level_columns ==
    {"GCP Project ID", "Bigquery Dataset ID", "Bigquery Table Name", "Column Name", "Rule Name",
     "Rule Description", "DQ Rule", "Ignore Null Values", "Threshhold",
     "Range Min Value", "Strict Range Min Value", "Range Max Value", "Strict Range Max Value",
     "Set Values", "Regular Expression", "SQL Expression"}

table_level_columns ==
    {"GCP Project ID", "Bigquery Dataset ID", "Bigquery Table Name",
     "Partition Filter Condition", "Data Sampling %", "schedule_interval",
     "DQ Export GCP Project ID", "DQ Export Bigquery Dataset ID", "DQ Export Bigquery Table Name"}

\* the strings the code compares cells with
NOT_NULL == <<"N", "O", "T", "_", "N", "U", "L", "L">>
RANGE == <<"R", "A", "N", "G", "E">>
UNIQUE == <<"U", "N", "I", "Q", "U", "E">>
SQL_ROW == <<"S", "Q", "L", "_", "R", "O", "W">>
REGEX == <<"R", "E", "G", "E", "X">>
SET == <<"S", "E", "T">>
SQL_TABLE == <<"S", "Q", "L", "_", "T", "A", "B", "L", "E">>
SQL_ASSERT == <<"S", "Q", "L", "_", "A", "S", "S", "E", "R", "T">>
TRUE_ == <<"T", "R", "U", "E">>
FALSE_ == <<"F", "A", "L", "S", "E">>
NAN_ == <<"N", "A", "N">>
true_ == <<"t", "r", "u", "e">>

valid_dq_rules == {NOT_NULL, RANGE, UNIQUE, SQL_ROW, REGEX, SET, SQL_TABLE, SQL_ASSERT}

\* the accepted readings of a tri-state flag: ['', 'NAN', 'TRUE', 'FALSE']
valid_flag_values == {<<>>, NAN_, TRUE_, FALSE_}

----------------------------------------------------------------------------
(* validate_excel, after the two sheets are read.  The result is           *)
(* <<ok, message>>; a message is [check, sheet, row], row = index + 1 for  *)
(* the messages that carry a row number and 0 for those that do not.       *)

Message(check, sheet, row) == [check |-> check, sheet |-> sheet, row |-> row]

\* all(pd.notna(row[col]) for col in required_columns)
HasRequiredValues(row) == NotNa(row.project) /\ NotNa(row.dataset) /\ NotNa(row.table)

\* any((ColumnLevel project == row project) & (dataset ==) & (table ==))
HasColumnLevelRecord(rows, row) ==
    \E i \in DOMAIN rows :
        /\ CellEq(rows[i].project, row.project)
        /\ CellEq(rows[i].dataset, row.dataset)
        /\ CellEq(rows[i].table, row.table)

\* RANGE with only the minimum looked at
RangeCheckMinOnly(dq_rule, row) == dq_rule = RANGE /\ IsNa(row.range_min)

\* the condition of the RANGE check
RangeCheck(dq_rule, row) ==
    dq_rule = RANGE /\ (IsNa(row.range_min) \/ IsNa(row.range_max))

\* the loop body with the three flag checks ahead of the threshold check
ColumnRowCheckFlagsFirst(row) ==
    LET dq_rule == Upper(Strip(Str(row.dq_rule)))
        ignore_null_values == Upper(Strip(Str(row.ignore_null)))
        strict_range_min_value == Upper(Strip(Str(row.strict_min)))
        strict_range_max_value == Upper(Strip(Str(row.strict_max)))
    IN  IF dq_rule \notin valid_dq_rules THEN "DQRule"
        ELSE IF dq_rule = NOT_NULL /\ ignore_null_values = TRUE_ THEN "IgnoreNullNotNull"
        ELSE IF ignore_null_values \notin valid_flag_values THEN "IgnoreNullFlag"
        ELSE IF strict_range_min_value \notin valid_flag_values THEN "StrictMinFlag"
        ELSE IF strict_range_max_value \notin valid_flag_values THEN "StrictMaxFlag"
        ELSE IF NotNa(row.threshhold) /\ Float(row.threshhold).kind = "ValueError"
        THEN "ThreshholdNumber"
        ELSE IF NotNa(row.threshhold) /\ ~InClosedRange(Float(row.threshhold), 1)
        THEN "ThreshholdRange"
        ELSE IF strict_range_min_value = TRUE_ /\ IsNa(row.range_min) THEN "StrictMinNeedsMin"
        ELSE IF strict_range_max_value = TRUE_ /\ IsNa(row.range_max) THEN "StrictMaxNeedsMax"
        ELSE IF RangeCheck(dq_rule, row) THEN "RangeMinMax"
        ELSE IF dq_rule = SET /\ IsNa(row.set_values) THEN "SetValues"
        ELSE IF dq_rule = REGEX /\ IsNa(row.regex) THEN "RegularExpression"
        ELSE IF dq_rule \in {SQL_ROW, SQL_TABLE, SQL_ASSERT} /\ IsNa(row.sql) THEN "SQLExpression"
        ELSE ""

\* The body of the ColumnLevel loop for one row: the check that returns, or "" when none does.
ColumnRowCheck(row) ==
    LET dq_rule == Upper(Strip(Str(row.dq_rule)))
        ignore_null_values == Upper(Strip(Str(row.ignore_null)))
        strict_range_min_value == Upper(Strip(Str(row.strict_min)))
        strict_range_max_value == Upper(Strip(Str(row.strict_max)))
    IN  IF dq_rule \notin valid_dq_rules THEN "DQRule"
        ELSE IF dq_rule = NOT_NULL /\ ignore_null_values = TRUE_ THEN "IgnoreNullNotNull"
        ELSE IF ignore_null_values \notin valid_flag_values THEN "IgnoreNullFlag"
        ELSE IF NotNa(row.threshhold) /\ Float(row.threshhold).kind = "ValueError"
        THEN "ThreshholdNumber"
        ELSE IF NotNa(row.threshhold) /\ ~InClosedRange(Float(row.threshhold), 1)
        THEN "ThreshholdRange"
        ELSE IF strict_range_min_value \notin valid_flag_values THEN "StrictMinFlag"
        ELSE IF strict_range_max_value \notin valid_flag_values THEN "StrictMaxFlag"
        ELSE IF strict_range_min_value = TRUE_ /\ IsNa(row.range_min) THEN "StrictMinNeedsMin"
        ELSE IF strict_range_max_value = TRUE_ /\ IsNa(row.range_max) THEN "StrictMaxNeedsMax"
        ELSE IF RangeCheck(dq_rule, row) THEN "RangeMinMax"
        ELSE IF dq_rule = SET /\ IsNa(row.set_values) THEN "SetValues"
        ELSE IF dq_rule = REGEX /\ IsNa(row.regex) THEN "RegularExpression"
        ELSE IF dq_rule \in {SQL_ROW, SQL_TABLE, SQL_ASSERT} /\ IsNa(row.sql) THEN "SQLExpression"
        ELSE ""

\* The body of the Data Sampling % loop for one TableLevel row.
TableRowCheck(row) ==
    IF NotNa(row.data_sampling) /\ Float(row.data_sampling).kind = "ValueError"
    THEN "DataSamplingNumber"
    ELSE IF NotNa(row.data_sampling) /\ ~InClosedRange(Float(row.data_sampling), 100)
    THEN "DataSamplingRange"
    ELSE ""

\* The first of the indexes at which a loop body returns (0: the loop runs to its end).
FirstIndex(returning) ==
    IF returning = {} THEN 0
    ELSE CHOOSE i \in returning : \A j \in returning : i <= j

validate_excel(column_level, table_level) ==
    LET crows == column_level.rows
        trows == table_level.rows
        column_missing == FirstIndex({i \in DOMAIN crows : ~HasRequiredValues(crows[i])})
        table_missing == FirstIndex({i \in DOMAIN trows : ~HasRequiredValues(trows[i])})
        unmatched == FirstIndex({i \in DOMAIN trows : ~HasColumnLevelRecord(crows, trows[i])})
        column_fails == FirstIndex({i \in DOMAIN crows : ColumnRowCheck(crows[i]) # ""})
        table_fails == FirstIndex({i \in DOMAIN trows : TableRowCheck(trows[i]) # ""})
    IN  IF ~(column_level_columns \subseteq column_level.columns)
        THEN <<FALSE, Message("MissingColumns", "ColumnLevel", 0)>>
        ELSE IF crows = <<>>
        THEN <<FALSE, Message("NoRecords", "ColumnLevel", 0)>>
        ELSE IF ~(table_level_columns \subseteq table_level.columns)
        THEN <<FALSE, Message("MissingColumns", "TableLevel", 0)>>
        ELSE IF column_missing # 0
        THEN <<FALSE, Message("MissingRequiredValues", "ColumnLevel", column_missing)>>
        ELSE IF table_missing # 0
        THEN <<FALSE, Message("MissingRequiredValues", "TableLevel", table_missing)>>
        ELSE IF unmatched # 0
        THEN <<FALSE, Message("NoColumnLevelRecord", "TableLevel", unmatched)>>
        ELSE IF column_fails # 0
        THEN <<FALSE, Message(ColumnRowCheck(crows[column_fails]), "ColumnLevel", column_fails)>>
        ELSE IF table_fails # 0
        THEN <<FALSE, Message(TableRowCheck(trows[table_fails]), "TableLevel", table_fails)>>
        ELSE <<TRUE, Message("Valid", "", 0)>>

----------------------------------------------------------------------------
(* process_excel_file: both sheets are read again with fillna(''), the     *)
(* ColumnLevel rows are grouped by identity and every row is appended to   *)
(* the dict entry of its group key string.                                 *)

dq_rule_expectation_dict ==
    [r \in valid_dq_rules |->
        CASE r = NOT_NULL -> "nonNullExpectation"
          [] r = RANGE -> "rangeExpectation"
          [] r = UNIQUE -> "uniquenessExpectation"
          [] r = SQL_ROW -> "rowConditionExpectation"
          [] r = REGEX -> "regexExpectation"
          [] r = SET -> "setExpectation"
          [] r = SQL_TABLE -> "tableConditionExpectation"
          [] r = SQL_ASSERT -> "sqlAssertion"]

dq_rule_dimession_dict ==
    [r \in valid_dq_rules |->
        CASE r = NOT_NULL -> "COMPLETENESS"
          [] r = UNIQUE -> "UNIQUENESS"
          [] OTHER -> "VALIDITY"]

\* dict.get(key, '')
Get(d, key) == IF key \in DOMAIN d THEN d[key] ELSE ""

FillRow(row) == [f \in DOMAIN row |-> FillNa(row[f])]
FillRows(rows) == [i \in DOMAIN rows |-> FillRow(rows[i])]

GroupKey(row) == <<row.project, row.dataset, row.table>>

\* tuple comparison of two group keys
GroupKeyLess(a, b) ==
    \/ StrLess(a[1], b[1])
    \/ a[1] = b[1] /\ StrLess(a[2], b[2])
    \/ a[1] = b[1] /\ a[2] = b[2] /\ StrLess(a[3], b[3])

RECURSIVE SortKeys(_)
SortKeys(S) ==
    IF S = {} THEN <<>>
    ELSE LET m == CHOOSE x \in S : \A y \in S \ {x} : GroupKeyLess(x, y)
         IN  <<m>> \o SortKeys(S \ {m})

\* the keys in the order of their first row
RECURSIVE FirstSeenKeys(_, _)
FirstSeenKeys(rows, seen) ==
    IF rows = <<>> THEN <<>>
    ELSE IF GroupKey(Head(rows)) \in seen THEN FirstSeenKeys(Tail(rows), seen)
    ELSE <<GroupKey(Head(rows))>> \o FirstSeenKeys(Tail(rows), seen \cup {GroupKey(Head(rows))})

\* groupby(..., sort=False): the groups in first-seen order
GroupedUnsorted(rows) == FirstSeenKeys(rows, {})

\* DataFrame.groupby([...]) iterates the groups in sorted key order (sort=True is the default)
Grouped(rows) == SortKeys({GroupKey(rows[i]) : i \in DOMAIN rows})

\* the rows of one group, in sheet order
RECURSIVE SelectRows(_, _)
SelectRows(rows, key) ==
    IF rows = <<>> THEN <<>>
    ELSE (IF GroupKey(Head(rows)) = key THEN <<Head(rows)>> ELSE <<>>)
         \o SelectRows(Tail(rows), key)

\* f"{group_key[0]}~{group_key[1]}~{group_key[2]}"
GroupKeyStr(key) == key[1] \o <<"~">> \o key[2] \o <<"~">> \o key[3]

\* the threshold list holds a float, or '' for an empty cell
NoFloat == [kind |-> "", neg |-> FALSE, num |-> 0, den |-> 1]

\* the TableLevel values of a group: those of the first matching row, '' when none matches
TableLevelValues(trows, key) ==
    LET table_level_row == SelectRows(trows, key)
        Value(f) == IF table_level_row # <<>> THEN table_level_row[1][f] ELSE <<>>
    IN  [partition_filter_condition |-> Value("partition_filter"),
         data_sampling_percentage |-> Value("data_sampling"),
         schedule_interval |-> Value("schedule_interval"),
         dq_export_gcp_project_id |-> Value("export_project"),
         dq_export_bigquery_dataset_id |-> Value("export_dataset"),
         dq_export_bigquery_table_name |-> Value("export_table")]

NewEntry(key_str, t) ==
    [key |-> key_str,
     expectation |-> <<>>, dimension |-> <<>>, name |-> <<>>, description |-> <<>>,
     threshold |-> <<>>, ignoreNull |-> <<>>, column |-> <<>>, minValue |-> <<>>,
     maxValue |-> <<>>, strictMinEnabled |-> <<>>, strictMaxEnabled |-> <<>>,
     sqlExpression |-> <<>>, regex |-> <<>>, setValues |-> <<>>,
     partition_filter_condition |-> t.partition_filter_condition,
     data_sampling_percentage |-> t.data_sampling_percentage,
     schedule_interval |-> t.schedule_interval,
     dq_export_gcp_project_id |-> t.dq_export_gcp_project_id,
     dq_export_bigquery_dataset_id |-> t.dq_export_bigquery_dataset_id,
     dq_export_bigquery_table_name |-> t.dq_export_bigquery_table_name]

\* the lookup of a row's expectation kind and dimension
ColumnExpectation(row) == Get(dq_rule_expectation_dict, row.dq_rule)
ColumnDimession(row) == Get(dq_rule_dimession_dict, row.dq_rule)

\* the fourteen appends of one row
AppendRow(e, row) ==
    [e EXCEPT
        !.expectation = Append(@, ColumnExpectation(row)),
        !.dimension = Append(@, ColumnDimession(row)),
        !.name = Append(@, row.rule_name),
        !.description = Append(@, row.rule_description),
        !.threshold = Append(@, IF row.threshhold # <<>> THEN Float(row.threshhold) ELSE NoFloat),
        !.ignoreNull = Append(@, row.ignore_null),
        !.column = Append(@, row.column),
        !.minValue = Append(@, row.range_min),
        !.maxValue = Append(@, row.range_max),
        !.strictMinEnabled = Append(@, row.strict_min),
        !.strictMaxEnabled = Append(@, row.strict_max),
        !.sqlExpression = Append(@, row.sql),
        !.regex = Append(@, row.regex),
        !.setValues = Append(@, IF row.set_values # <<>> THEN Split(row.set_values, ",") ELSE <<>>)]

\* the position of a key in the dict, 0 when it is not in it
IndexOfKey(dict, key_str) ==
    IF \E i \in DOMAIN dict : dict[i].key = key_str
    THEN CHOOSE i \in DOMAIN dict : dict[i].key = key_str
    ELSE 0

\* the inner loop: the rows of one group
RECURSIVE ProcessRows(_, _, _, _)
ProcessRows(dict, group_rows, key_str, t) ==
    IF group_rows = <<>> THEN dict
    ELSE LET d1 == IF IndexOfKey(dict, key_str) = 0
                   THEN Append(dict, NewEntry(key_str, t))
                   ELSE dict
             i == IndexOfKey(d1, key_str)
         IN  ProcessRows([d1 EXCEPT ![i] = AppendRow(@, Head(group_rows))],
                         Tail(group_rows), key_str, t)

\* the outer loop: the groups
RECURSIVE ProcessGroups(_, _, _, _)
ProcessGroups(dict, keys, crows, trows) ==
    IF keys = <<>> THEN dict
    ELSE ProcessGroups(ProcessRows(dict, SelectRows(crows, Head(keys)),
                                   GroupKeyStr(Head(keys)), TableLevelValues(trows, Head(keys))),
                       Tail(keys), crows, trows)

process_excel_file(column_level, table_level) ==
    LET crows == FillRows(column_level.rows)
        trows == FillRows(table_level.rows)
    IN  ProcessGroups(<<>>, Grouped(crows), crows, trows)

----------------------------------------------------------------------------
(* write_yaml_files: one document per dict entry, in dict order.  A        *)
(* mapping of the document is a function from its keys to their values.    *)

EmptyDict == [k \in {} |-> {}]

\* d[k] = v
Put(d, k, v) == (k :> v) @@ d

\* d[k] = v when the condition holds, d unchanged otherwise
PutIf(cond, d, k, v) == IF cond THEN Put(d, k, v) ELSE d

YAML_SUFFIX == <<".", "y", "a", "m", "l">>
STAR == <<"s", "t", "a", "r">>
RESULTS_TABLE_PREFIX ==
    <<"/", "/", "b", "i", "g", "q", "u", "e", "r", "y", ".", "g", "o", "o", "g", "l", "e",
      "a", "p", "i", "s", ".", "c", "o", "m", "/", "p", "r", "o", "j", "e", "c", "t", "s", "/">>
DATASETS == <<"/", "d", "a", "t", "a", "s", "e", "t", "s", "/">>
TABLES == <<"/", "t", "a", "b", "l", "e", "s", "/">>

\* the condition guarding a stripped str value: non-empty and not only whitespace
NotBlank(v) == v # <<>> /\ Strip(v) # <<>>

YamlFileName(value) ==
    IF NotBlank(value.schedule_interval)
    THEN LET modified_schedule ==
                 Replace(Replace(value.schedule_interval, "*", STAR), " ", <<"_">>)
         IN  Replace(value.key, "~", <<"_", "_">>) \o <<"_", "_">> \o modified_schedule
             \o YAML_SUFFIX
    ELSE Replace(value.key, "~", <<"_", "_">>) \o YAML_SUFFIX

\* the mapping nested under the expectation key of rule i
NestedOf(value, i) ==
    LET n1 == PutIf(value.minValue[i] # <<>>, EmptyDict, "minValue", value.minValue[i])
        n2 == PutIf(value.maxValue[i] # <<>>, n1, "maxValue", value.maxValue[i])
        n3 == PutIf(value.strictMinEnabled[i] # <<>>, n2, "strictMinEnabled",
                    Lower(value.strictMinEnabled[i]) = true_)
        n4 == PutIf(value.strictMaxEnabled[i] # <<>>, n3, "strictMaxEnabled",
                    Lower(value.strictMaxEnabled[i]) = true_)
        n5 == PutIf(value.sqlExpression[i] # <<>>, n4,
                    IF value.expectation[i] = "sqlAssertion" THEN "sqlStatement"
                                                             ELSE "sqlExpression",
                    value.sqlExpression[i])
        n6 == PutIf(value.regex[i] # <<>>, n5, "regex", value.regex[i])
    IN  PutIf(value.setValues[i] # <<>>, n6, "values", value.setValues[i])

\* rule i of an entry
RuleOf(value, i) ==
    LET r1 == PutIf(value.dimension[i] # "", EmptyDict, "dimension", value.dimension[i])
        r2 == PutIf(value.column[i] # <<>>, r1, "column", value.column[i])
        r3 == PutIf(FloatTruthy(value.threshold[i]) /\ value.threshold[i] # NoFloat,
                    r2, "threshold", value.threshold[i])
        r4 == PutIf(value.ignoreNull[i] # <<>>, r3, "ignoreNull",
                    Lower(value.ignoreNull[i]) = true_)
    IN  Put(r4, value.expectation[i], NestedOf(value, i))

\* the export destination written as soon as the export project is given
HasExportProjectOnly(value) == NotBlank(value.dq_export_gcp_project_id)

\* the export destination is written when all three parts are non-blank
HasExport(value) ==
    /\ NotBlank(value.dq_export_gcp_project_id)
    /\ NotBlank(value.dq_export_bigquery_dataset_id)
    /\ NotBlank(value.dq_export_bigquery_table_name)

ResultsTable(value) ==
    RESULTS_TABLE_PREFIX \o value.dq_export_gcp_project_id
    \o DATASETS \o value.dq_export_bigquery_dataset_id
    \o TABLES \o value.dq_export_bigquery_table_name

YamlContent(value) ==
    LET c1 == PutIf(value.partition_filter_condition # <<>>, EmptyDict, "rowFilter",
                    value.partition_filter_condition)
        c2 == PutIf(value.data_sampling_percentage # <<>>, c1, "samplingPercent",
                    value.data_sampling_percentage)
        c3 == Put(c2, "rules", [i \in DOMAIN value.expectation |-> RuleOf(value, i)])
    IN  PutIf(HasExport(value), c3, "postScanActions",
              "bigqueryExport" :> ("resultsTable" :> ResultsTable(value)))

----------------------------------------------------------------------------
(* The run on one spreadsheet: validate_excel, then, for a valid sheet,    *)
(* process_excel_file, whose last statement is the write_yaml_files loop.  *)

Validate ==
    /\ pc = "validate"
    /\ LET result == validate_excel(column_level_df, table_level_df)
       IN  /\ valid_excel_sheet' = result[1]
           /\ validation_message' = result[2]
           /\ pc' = IF result[1] THEN "process" ELSE "done"
    /\ UNCHANGED <<column_level_df, table_level_df, yaml_content_dict, uploaded, driver_vars>>

Process ==
    /\ pc = "process"
    /\ yaml_content_dict' = process_excel_file(column_level_df, table_level_df)
    /\ pc' = "write"
    /\ UNCHANGED <<column_level_df, table_level_df, valid_excel_sheet, validation_message,
                   uploaded, driver_vars>>

\* one iteration of the loop over yaml_content_dict.items()
WriteYaml ==
    /\ pc = "write"
    /\ Len(uploaded) < Len(yaml_content_dict)
    /\ LET value == yaml_content_dict[Len(uploaded) + 1]
       IN  uploaded' = Append(uploaded, [name |-> YamlFileName(value),
                                         content |-> YamlContent(value)])
    /\ pc' = IF Len(uploaded') = Len(yaml_content_dict) THEN "done" ELSE "write"
    /\ UNCHANGED <<column_level_df, table_level_df, valid_excel_sheet, validation_message,
                   yaml_content_dict, driver_vars>>

Next == Validate \/ Process \/ WriteYaml

----------------------------------------------------------------------------
(* The spreadsheets of the model.                                          *)

SeqsUpTo(S, n) == UNION {[1..k -> S] : k \in 0..n}

\* a row differing from `row` in at most n cells, each taken from Values[field]
RECURSIVE Edits(_, _, _)
Edits(row, Values, n) ==
    IF n = 0 THEN {row}
    ELSE LET less == Edits(row, Values, n - 1)
         IN  less \cup UNION {{[r EXCEPT ![f] = v] : v \in Values[f]} :
                                 <<r, f>> \in less \X DOMAIN Values}

ColumnRow(project, dataset, table, column, dq_rule) ==
    [project |-> project, dataset |-> dataset, table |-> table, column |-> column,
     rule_name |-> <<"n">>, rule_description |-> <<"o">>, dq_rule |-> dq_rule,
     ignore_null |-> NaN, threshhold |-> NaN, range_min |-> NaN, strict_min |-> NaN,
     range_max |-> NaN, strict_max |-> NaN, set_values |-> NaN, regex |-> NaN, sql |-> NaN]

TableRow(project, dataset, table, schedule_interval) ==
    [project |-> project, dataset |-> dataset, table |-> table,
     partition_filter |-> NaN, data_sampling |-> NaN, schedule_interval |-> schedule_interval,
     export_project |-> NaN, export_dataset |-> NaN, export_table |-> NaN]

P == <<"p">>
D == <<"d">>
T == <<"t">>
C == <<"c">>

\* one valid ColumnLevel row per rule type
ValidColumnRows ==
    LET r == [dq \in valid_dq_rules |-> ColumnRow(P, D, T, C, dq)]
    IN  {r[NOT_NULL], r[UNIQUE],
         [r[RANGE] EXCEPT !.range_min = <<"1">>, !.range_max = <<"5">>],
         [r[SET] EXCEPT !.set_values = <<"a", ",", "b">>],
         [r[REGEX] EXCEPT !.regex = <<"r">>],
         [r[SQL_ROW] EXCEPT !.sql = <<"s">>],
         [r[SQL_TABLE] EXCEPT !.sql = <<"s">>],
         [r[SQL_ASSERT] EXCEPT !.sql = <<"s">>]}

\* the cells an edit writes into a ColumnLevel row
ColumnCellValues ==
    [project |-> {NaN},
     column |-> {NaN},
     rule_name |-> {NaN},
     dq_rule |-> {NaN, <<"F", "O", "O">>, <<" ", "r", "a", "n", "g", "e", " ">>},
     ignore_null |-> {TRUE_, <<" ", "t", "r", "u", "e">>, FALSE_, NAN_, <<" ">>, <<"x">>},
     threshhold |-> {<<"0">>, <<"0", ".", "5">>, <<"1", ".", "5">>, <<"x">>},
     strict_min |-> {TRUE_, <<"f", "a", "l", "s", "e">>, <<"x">>},
     strict_max |-> {TRUE_, <<"x">>},
     range_min |-> {NaN, <<"1">>},
     range_max |-> {NaN, <<"5">>},
     set_values |-> {NaN, <<"a", ",", "b">>},
     regex |-> {NaN, <<"r">>},
     sql |-> {NaN, <<"s">>}]

\* the TableLevel rows of the table (p, d, t), every optional cell varied
TableRowsInDepth ==
    {[TableRow(P, D, T, sch) EXCEPT !.partition_filter = pf, !.data_sampling = ds,
                                    !.export_project = ep, !.export_dataset = ed,
                                    !.export_table = et] :
        sch \in {NaN, <<" ">>, <<"0", " ", "*", " ", "*">>},
        pf \in {NaN, <<" ">>, <<"f">>},
        ds \in {NaN, <<"0">>, <<"5", "0">>, <<"1", "0", "1">>, <<"x">>},
        ep \in {NaN, <<" ">>, <<"e">>},
        ed \in {NaN, <<"e">>},
        et \in {NaN, <<"e">>}}

\* a second TableLevel row of the table (p, d, t), every optional cell filled
OtherTableRow ==
    [TableRow(P, D, T, <<"1">>) EXCEPT !.partition_filter = <<"g">>, !.data_sampling = <<"7">>,
                                       !.export_project = <<"x">>, !.export_dataset = <<"y">>,
                                       !.export_table = <<"z">>]

\* rows for the sheet-level checks and the order of the checks across rows
ValidationColumnRows ==
    {ColumnRow(P, D, T, C, UNIQUE),
     ColumnRow(P, NaN, T, C, UNIQUE),
     ColumnRow(P, D, T, C, <<"F", "O", "O">>),
     [ColumnRow(P, D, T, C, RANGE) EXCEPT !.strict_min = TRUE_],
     [ColumnRow(P, D, T, C, RANGE) EXCEPT !.threshhold = <<"2">>, !.strict_max = <<"x">>],
     [ColumnRow(P, D, T, C, NOT_NULL) EXCEPT !.ignore_null = TRUE_]}

ValidationTableRows ==
    {TableRow(P, D, T, NaN),
     TableRow(P, D, NaN, NaN),
     TableRow(P, <<"q">>, T, NaN),
     [TableRow(P, D, T, NaN) EXCEPT !.data_sampling = <<"1", "0", "1">>]}

\* rows of several tables: identities that sort against sheet order, that share a
\* group key string and that share an output name
GroupingIdentities ==
    {<<<<"b">>, D, T>>, <<<<"a">>, D, T>>,
     <<<<"a", "~", "b">>, D, T>>, <<<<"a">>, <<"b", "~", "d">>, T>>,
     <<<<"a", "_", "_", "b">>, D, T>>}

GroupingColumnRows ==
    {ColumnRow(k[1], k[2], k[3], <<"x">>, UNIQUE) : k \in GroupingIdentities}
    \cup {ColumnRow(<<"a">>, D, T, <<"y">>, NOT_NULL),
          ColumnRow(<<"a">>, <<"b", "~", "d">>, T, <<"y">>, NOT_NULL)}

GroupingTableRows ==
    {TableRow(k[1], k[2], k[3], sch) :
        k \in {<<<<"a">>, D, T>>, <<<<"a", "~", "b">>, D, T>>},
        sch \in {NaN, <<"0", " ", "*">>}}

Sheet(columns, rows) == [columns |-> columns, rows |-> rows]

ColumnHeaders == {column_level_columns, column_level_columns \ {"Threshhold"}}
TableHeaders == {table_level_columns, table_level_columns \ {"Data Sampling %"}}

InitInput ==
    \/ \E ch \in ColumnHeaders, th \in TableHeaders,
          crows \in SeqsUpTo(ValidationColumnRows, MaxColumnRows),
          trows \in SeqsUpTo(ValidationTableRows, MaxTableRows) :
            /\ column_level_df = Sheet(ch, crows)
            /\ table_level_df = Sheet(th, trows)
    \/ \E base \in ValidColumnRows :
        \E row \in Edits(base, ColumnCellValues, MaxEdits) :
            /\ column_level_df = Sheet(column_level_columns, <<row>>)
            /\ table_level_df = Sheet(table_level_columns, <<>>)
    \/ \E row \in TableRowsInDepth, more \in SeqsUpTo({OtherTableRow}, MaxTableRows - 1) :
        \E trows \in {<<row>> \o more, more \o <<row>>} :
            /\ column_level_df = Sheet(column_level_columns, <<ColumnRow(P, D, T, C, UNIQUE)>>)
            /\ table_level_df = Sheet(table_level_columns, trows)
    \/ \E crows \in SeqsUpTo(GroupingColumnRows, MaxColumnRows),
          trows \in SeqsUpTo(GroupingTableRows, MaxTableRows) :
            /\ column_level_df = Sheet(column_level_columns, crows)
            /\ table_level_df = Sheet(table_level_columns, trows)

NoMessage == Message("", "", 0)

\* no listing has been read and nothing has been printed
DriverIdle ==
    /\ valid_excel_list = <<>>
    /\ file = 0
    /\ elements = 0
    /\ items = 0
    /\ printed = <<>>

Init ==
    /\ InitInput
    /\ pc = "validate"
    /\ valid_excel_sheet = FALSE
    /\ validation_message = NoMessage
    /\ yaml_content_dict = <<>>
    /\ uploaded = <<>>
    /\ blobs = <<>>
    /\ DriverIdle

Spec == Init /\ [][Next]_vars

----------------------------------------------------------------------------
(* The driver: main validates the bucket location, list_all_valid_excels   *)
(* validates every spreadsheet of the listing, and main then compiles the  *)
(* accepted ones in turn.                                                  *)

MaxFiles == 2

SLASH == <<"/">>
XLSX == <<".", "x", "l", "s", "x">>

\* str.endswith
EndsWith(s, suffix) ==
    /\ Len(suffix) <= Len(s)
    /\ SubSeq(s, Len(s) - Len(suffix) + 1, Len(s)) = suffix

\* a printed line: what is printed, the object it is about, the validation message in it
Line(what, about, message) == [what |-> what, about |-> about, message |-> message]

validate_directory(listing) ==
    IF listing = <<>>
    THEN <<FALSE, Message("InvalidPath", "", 0)>>
    ELSE IF ~\E i \in DOMAIN listing : EndsWith(listing[i].name, SLASH)
    THEN <<FALSE, Message("NotADirectory", "", 0)>>
    ELSE IF ~\E i \in DOMAIN listing : EndsWith(listing[i].name, XLSX)
    THEN <<FALSE, Message("NoExcelSheet", "", 0)>>
    ELSE <<TRUE, NoMessage>>

required_sheets == {"ColumnLevel", "TableLevel"}

\* validate_excel reaches the reading of the two sheets
SheetsRead(blob) == blob.readable /\ required_sheets \subseteq blob.sheet_names

\* validate_excel on an object of the bucket: loading, the required sheets, then the checks
ValidateExcelFile(blob) ==
    IF ~blob.readable
    THEN <<FALSE, Message("LoadError", "", 0)>>
    ELSE IF ~(required_sheets \subseteq blob.sheet_names)
    THEN <<FALSE, Message("MissingSheets", "", 0)>>
    ELSE validate_excel(blob.column_level, blob.table_level)

\* the object of a name; object names are unique in a listing
BlobNamed(name) == blobs[CHOOSE i \in DOMAIN blobs : blobs[i].name = name]

\* the exception raised in write_yaml_files is not handled anywhere in main
Raises == "raised"

MainValidateDirectory ==
    /\ pc = "main"
    /\ LET result == validate_directory(blobs)
       IN  IF result[1]
           THEN /\ pc' = "list"
                /\ file' = 1
                /\ printed' = printed
           ELSE /\ pc' = "done"
                /\ file' = file
                /\ printed' = Append(printed, Line("validation_message", <<>>, result[2]))
    /\ UNCHANGED <<column_level_df, table_level_df, valid_excel_sheet, validation_message,
                   yaml_content_dict, uploaded, blobs, valid_excel_list, elements, items>>

\* one iteration of the loop over file_list
ListAllValidExcels ==
    /\ pc = "list"
    /\ file <= Len(blobs)
    /\ LET blob == blobs[file]
           result == ValidateExcelFile(blob)
       IN  IF EndsWith(blob.name, XLSX)
           THEN /\ valid_excel_sheet' = result[1]
                /\ validation_message' = result[2]
                /\ column_level_df' = IF SheetsRead(blob) THEN blob.column_level
                                                          ELSE column_level_df
                /\ table_level_df' = IF SheetsRead(blob) THEN blob.table_level
                                                         ELSE table_level_df
                /\ printed' = printed \o <<Line("Reading", blob.name, NoMessage)>>
                                \o (IF result[1] THEN <<>>
                                    ELSE <<Line("validation_message", blob.name, result[2])>>)
                /\ valid_excel_list' = IF result[1] THEN Append(valid_excel_list, blob.name)
                                                    ELSE valid_excel_list
           ELSE UNCHANGED <<valid_excel_sheet, validation_message, column_level_df,
                            table_level_df, printed, valid_excel_list>>
    /\ file' = file + 1
    /\ UNCHANGED <<pc, yaml_content_dict, uploaded, blobs, elements, items>>

\* main once list_all_valid_excels has returned
MainValidExcelList ==
    /\ pc = "list"
    /\ file > Len(blobs)
    /\ IF Len(valid_excel_list) = 0
       THEN /\ printed' = Append(printed, Line("NoValidExcel", <<>>, NoMessage))
            /\ pc' = "done"
            /\ elements' = elements
       ELSE /\ printed' = Append(printed, Line("Processing", <<>>, NoMessage))
            /\ pc' = "process"
            /\ elements' = 1
    /\ UNCHANGED <<column_level_df, table_level_df, valid_excel_sheet, validation_message,
                   yaml_content_dict, uploaded, blobs, valid_excel_list, file, items>>

\* process_excel_file up to its call of write_yaml_files
ProcessExcelFile ==
    /\ pc = "process"
    /\ LET blob == BlobNamed(valid_excel_list[elements])
       IN  /\ column_level_df' = blob.column_level
           /\ table_level_df' = blob.table_level
           /\ yaml_content_dict' = process_excel_file(blob.column_level, blob.table_level)
    /\ items' = 1
    /\ pc' = IF yaml_content_dict' = <<>>
             THEN (IF elements = Len(valid_excel_list) THEN "done" ELSE "process")
             ELSE "write"
    /\ elements' = IF yaml_content_dict' = <<>> THEN elements + 1 ELSE elements
    /\ UNCHANGED <<valid_excel_sheet, validation_message, uploaded, blobs, valid_excel_list,
                   file, printed>>

\* one iteration of the loop over yaml_content_dict.items() whose upload succeeds; after
\* the last one write_yaml_files and process_excel_file return to the loop of main
WriteYamlFile ==
    /\ pc = "write"
    /\ items <= Len(yaml_content_dict)
    /\ LET value == yaml_content_dict[items]
       IN  /\ uploaded' = Append(uploaded, [name |-> YamlFileName(value),
                                            content |-> YamlContent(value)])
           /\ printed' = Append(printed, Line("Written", YamlFileName(value), NoMessage))
    /\ items' = items + 1
    /\ IF items = Len(yaml_content_dict)
       THEN /\ elements' = elements + 1
            /\ pc' = IF elements = Len(valid_excel_list) THEN "done" ELSE "process"
       ELSE /\ elements' = elements
            /\ pc' = "write"
    /\ UNCHANGED <<column_level_df, table_level_df, valid_excel_sheet, validation_message,
                   yaml_content_dict, blobs, valid_excel_list, file>>

\* one iteration whose dump or upload raises: the handler formats a line with file_name,
\* a name that is bound nowhere in write_yaml_files or the module, so the handler raises
\* NameError before it prints, and nothing up to main handles it
WriteYamlFileRaises ==
    /\ pc = "write"
    /\ items <= Len(yaml_content_dict)
    /\ pc' = Raises
    /\ UNCHANGED <<column_level_df, table_level_df, valid_excel_sheet, validation_message,
                   yaml_content_dict, uploaded, driver_vars>>

DriverNext ==
    \/ MainValidateDirectory
    \/ ListAllValidExcels
    \/ MainValidExcelList
    \/ ProcessExcelFile
    \/ WriteYamlFile
    \/ WriteYamlFileRaises

----------------------------------------------------------------------------
(* The bucket locations of the model.                                      *)

Blob(name, workbook) ==
    [name |-> name, readable |-> workbook.readable, sheet_names |-> workbook.sheet_names,
     column_level |-> workbook.column_level, table_level |-> workbook.table_level]

Workbook(readable, sheet_names, crows, trows) ==
    [readable |-> readable, sheet_names |-> sheet_names,
     column_level |-> Sheet(column_level_columns, crows),
     table_level |-> Sheet(table_level_columns, trows)]

NotAWorkbook == Workbook(FALSE, {}, <<>>, <<>>)

\* the spreadsheets a location may hold: one that does not load, one without its
\* TableLevel sheet, one with an unknown rule type, one valid for one table and one valid
\* for two tables
Workbooks ==
    <<NotAWorkbook,
      Workbook(TRUE, {"ColumnLevel"}, <<ColumnRow(P, D, T, C, UNIQUE)>>, <<>>),
      Workbook(TRUE, required_sheets, <<ColumnRow(P, D, T, C, <<"F", "O", "O">>)>>, <<>>),
      Workbook(TRUE, required_sheets, <<ColumnRow(P, D, T, C, UNIQUE)>>,
               <<TableRow(P, D, T, NaN)>>),
      Workbook(TRUE, required_sheets,
               <<ColumnRow(<<"a">>, D, T, C, UNIQUE), ColumnRow(<<"b">>, D, T, C, NOT_NULL)>>,
               <<>>)>>

FOLDER == <<"d", "/">>

ExcelName(i) == FOLDER \o <<Digits[i + 1]>> \o XLSX

\* the spreadsheets of a location in name order; chosen[i] = 0 leaves out spreadsheet i
RECURSIVE ExcelBlobs(_, _)
ExcelBlobs(chosen, i) ==
    IF i > Len(chosen) THEN <<>>
    ELSE (IF chosen[i] = 0 THEN <<>> ELSE <<Blob(ExcelName(i), Workbooks[chosen[i]])>>)
         \o ExcelBlobs(chosen, i + 1)

\* a listing in name order: the folder object, the spreadsheets, an object of another kind
Listing(folder, chosen, other) ==
    (IF folder THEN <<Blob(FOLDER, NotAWorkbook)>> ELSE <<>>)
    \o ExcelBlobs(chosen, 1)
    \o (IF other THEN <<Blob(FOLDER \o <<"r", ".", "t", "x", "t">>, NotAWorkbook)>> ELSE <<>>)

DriverInit ==
    /\ \E folder, other \in BOOLEAN, chosen \in [1..MaxFiles -> 0..Len(Workbooks)] :
            blobs = Listing(folder, chosen, other)
    /\ pc = "main"
    /\ column_level_df = Sheet({}, <<>>)
    /\ table_level_df = Sheet({}, <<>>)
    /\ valid_excel_sheet = FALSE
    /\ validation_message = NoMessage
    /\ yaml_content_dict = <<>>
    /\ uploaded = <<>>
    /\ DriverIdle

DriverSpec == DriverInit /\ [][DriverNext]_vars

----------------------------------------------------------------------------
(* The properties checked on the run.                                      *)

validated == pc # "validate"
compiled == pc = "done" /\ valid_excel_sheet

column_rows == column_level_df.rows
table_rows == table_level_df.rows

\* a cell is present when the sheet holds a value in it
Present(v) == v # NaN

\* a cell is blank when it is empty or holds only whitespace
Blank(v) == v = NaN \/ \A i \in DOMAIN v : v[i] = " "

\* the reading of a tri-state flag: case-insensitive, surrounding whitespace trimmed
FlagReading(v) ==
    LET s == IF v = NaN THEN <<>> ELSE Upper(Strip(v))
    IN  IF s = <<>> THEN "empty"
        ELSE IF s = TRUE_ THEN "true"
        ELSE IF s = FALSE_ THEN "false"
        ELSE "other"

\* the rule type the validator recognises: case-insensitive, trimmed
RuleType(row) == IF row.dq_rule = NaN THEN <<>> ELSE Upper(Strip(row.dq_rule))

\* a present cell that is a real number in [0, hi]
NumberUpTo(v, hi) == Float(v).kind # "ValueError" /\ InClosedRange(Float(v), hi)

\* check 1 of section 4.1
SchemaHolds ==
    /\ column_level_columns \subseteq column_level_df.columns
    /\ table_level_columns \subseteq table_level_df.columns

\* check 3
IdentityHolds ==
    \A rows \in {column_rows, table_rows} : \A i \in DOMAIN rows :
        Present(rows[i].project) /\ Present(rows[i].dataset) /\ Present(rows[i].table)

\* check 4
ReferentialHolds ==
    \A i \in DOMAIN table_rows : \E j \in DOMAIN column_rows :
        GroupKey(column_rows[j]) = GroupKey(table_rows[i])

\* check 5, for one row
RuleChecksHold(row) ==
    /\ RuleType(row) \in valid_dq_rules
    /\ RuleType(row) = NOT_NULL => FlagReading(row.ignore_null) # "true"
    /\ \A flag \in {row.ignore_null, row.strict_min, row.strict_max} :
            FlagReading(flag) \in {"empty", "true", "false"}
    /\ Present(row.threshhold) => NumberUpTo(row.threshhold, 1)
    /\ FlagReading(row.strict_min) = "true" => Present(row.range_min)
    /\ FlagReading(row.strict_max) = "true" => Present(row.range_max)
    /\ RuleType(row) = RANGE => Present(row.range_min) /\ Present(row.range_max)
    /\ RuleType(row) = SET => Present(row.set_values)
    /\ RuleType(row) = REGEX => Present(row.regex)
    /\ RuleType(row) \in {SQL_ROW, SQL_TABLE, SQL_ASSERT} => Present(row.sql)

\* check 6
SamplingHolds ==
    \A i \in DOMAIN table_rows :
        Present(table_rows[i].data_sampling) => NumberUpTo(table_rows[i].data_sampling, 100)

AllChecksHold ==
    /\ SchemaHolds
    /\ column_rows # <<>>
    /\ IdentityHolds
    /\ ReferentialHolds
    /\ \A i \in DOMAIN column_rows : RuleChecksHold(column_rows[i])
    /\ SamplingHolds

\* C1: validate returns ok = true exactly when none of the checks 1-6 of section 4.1
\* is violated, and ok = false with a non-empty message otherwise.
C1_ValidExactlyWhenChecksHold ==
    validated =>
        /\ valid_excel_sheet <=> AllChecksHold
        /\ ~valid_excel_sheet => validation_message.check \notin {"", "Valid"}

----------------------------------------------------------------------------
(* The documents of a run and the rows they come from.                     *)

filled_column_rows == FillRows(column_rows)
filled_table_rows == FillRows(table_rows)

\* the rows appended to the dict entry of a group key string, in the order of the appends
RECURSIVE RowsOfKeyStr(_, _)
RowsOfKeyStr(keys, key_str) ==
    IF keys = <<>> THEN <<>>
    ELSE (IF GroupKeyStr(Head(keys)) = key_str
          THEN SelectRows(filled_column_rows, Head(keys)) ELSE <<>>)
         \o RowsOfKeyStr(Tail(keys), key_str)

\* the source row of rule i of document d
SourceRow(d, i) == RowsOfKeyStr(Grouped(filled_column_rows), yaml_content_dict[d].key)[i]

Rules(d) == uploaded[d].content["rules"]

ExpectationKinds == {dq_rule_expectation_dict[r] : r \in valid_dq_rules}

\* C2: every compiled rule of a validated input is nested under the expectation kind, and
\* carries the dimension, that the RuleType table assigns to the rule type the validator
\* recognised in its source row.
C2_RuleTypeTable ==
    compiled =>
        \A d \in DOMAIN uploaded : \A i \in DOMAIN Rules(d) :
            LET rule == Rules(d)[i]
                type == RuleType(SourceRow(d, i))
            IN  /\ dq_rule_expectation_dict[type] \in DOMAIN rule
                /\ DOMAIN rule \cap ExpectationKinds = {dq_rule_expectation_dict[type]}
                /\ "" \notin DOMAIN rule
                /\ "dimension" \in DOMAIN rule
                /\ rule["dimension"] = dq_rule_dimession_dict[type]

\* C3: every base field that is non-empty in the source row is present in the compiled
\* rule: dimension, column, name, description, threshold as a number (0 included) and
\* ignoreNull as a boolean.
C3_BaseFields ==
    compiled =>
        \A d \in DOMAIN uploaded : \A i \in DOMAIN Rules(d) :
            LET rule == Rules(d)[i]
                row == SourceRow(d, i)
            IN  /\ "dimension" \in DOMAIN rule
                /\ row.column # <<>> => "column" \in DOMAIN rule /\ rule["column"] = row.column
                /\ row.rule_name # <<>> => "name" \in DOMAIN rule /\ rule["name"] = row.rule_name
                /\ row.rule_description # <<>> =>
                        "description" \in DOMAIN rule
                        /\ rule["description"] = row.rule_description
                /\ row.threshhold # <<>> =>
                        "threshold" \in DOMAIN rule
                        /\ rule["threshold"] = Float(row.threshhold)
                /\ row.ignore_null # <<>> =>
                        "ignoreNull" \in DOMAIN rule /\ rule["ignoreNull"] \in BOOLEAN

----------------------------------------------------------------------------
(* Grouping, order and naming.                                             *)

\* the identity triples of the ColumnLevel rows
Triples == {GroupKey(filled_column_rows[i]) : i \in DOMAIN filled_column_rows}

\* the triples whose rows a document holds
TriplesOfDocument(d) ==
    {k \in Triples : GroupKeyStr(k) = yaml_content_dict[d].key}

DocumentNames == {uploaded[d].name : d \in DOMAIN uploaded}

\* C4: compiling writes exactly as many distinct output names as there are distinct
\* (project, dataset, table) triples; two triples never share a group key or a name, and
\* no document mixes the rules of two triples.
C4_OneDocumentPerTriple ==
    compiled =>
        /\ Cardinality(DocumentNames) = Cardinality(Triples)
        /\ Len(yaml_content_dict) = Cardinality(Triples)
        /\ \A d \in DOMAIN uploaded : Cardinality(TriplesOfDocument(d)) = 1

\* the index of the first ColumnLevel row of a triple
FirstSeen(k) ==
    CHOOSE i \in DOMAIN filled_column_rows :
        /\ GroupKey(filled_column_rows[i]) = k
        /\ \A j \in 1..(i - 1) : GroupKey(filled_column_rows[j]) # k

\* C5 as stated: the groups are emitted, and the documents written, in the order in which
\* each identity triple is first seen in the ColumnLevel rows.
C5_FirstSeenOrder ==
    pc \in {"write", "done"} =>
        \A d, e \in DOMAIN yaml_content_dict :
            d < e =>
                \E k \in TriplesOfDocument(d) : \A l \in TriplesOfDocument(e) :
                    FirstSeen(k) < FirstSeen(l)

\* C5 as amended: the groups are emitted in ascending order of the identity triple
\* (project, then dataset, then table, each compared as a string), whatever the row order,
\* and the documents are written in the order of the groups.
C5_SortedOrder ==
    /\ pc \in {"write", "done"} =>
        \A d, e \in DOMAIN yaml_content_dict :
            d < e =>
                \E k \in TriplesOfDocument(d) : \A l \in TriplesOfDocument(e) :
                    GroupKeyLess(k, l)
    /\ \A d \in DOMAIN uploaded : uploaded[d].name = YamlFileName(yaml_content_dict[d])

\* two documents are written and the sheet lists their tables against the sorted order
C5_Witness ==
    /\ compiled
    /\ Len(uploaded) = 2
    /\ \E k \in TriplesOfDocument(1), l \in TriplesOfDocument(2) : FirstSeen(l) < FirstSeen(k)

----------------------------------------------------------------------------
(* Optional fields, export destination and document names.                 *)

\* the triple of the group that created the dict entry of document d
CreatingTriple(d) ==
    CHOOSE k \in TriplesOfDocument(d) :
        \A l \in TriplesOfDocument(d) \ {k} : GroupKeyLess(k, l)

\* the index of the matched TableLevel row of document d: the first row of its table,
\* 0 when the table has no TableLevel row
MatchedRow(d) ==
    LET matching == {i \in DOMAIN filled_table_rows :
                        GroupKey(filled_table_rows[i]) = CreatingTriple(d)}
    IN  IF matching = {} THEN 0
        ELSE CHOOSE i \in matching : \A j \in matching : i <= j

\* a cell of the matched TableLevel row, empty when no row matches
MatchedCell(d, field) ==
    IF MatchedRow(d) = 0 THEN <<>> ELSE filled_table_rows[MatchedRow(d)][field]

\* the mapping nested under the expectation key of rule i of document d
Nested(d, i) == Rules(d)[i][yaml_content_dict[d].expectation[i]]

\* C6: an optional field that is absent or blank in the source row has no key in the
\* output document.
C6_BlankFieldsOmitted ==
    compiled =>
        \A d \in DOMAIN uploaded :
            /\ Blank(MatchedCell(d, "partition_filter")) =>
                    "rowFilter" \notin DOMAIN uploaded[d].content
            /\ Blank(MatchedCell(d, "data_sampling")) =>
                    "samplingPercent" \notin DOMAIN uploaded[d].content
            /\ \A i \in DOMAIN Rules(d) :
                LET row == SourceRow(d, i)
                    rule == Rules(d)[i]
                    nested == Nested(d, i)
                IN  /\ Blank(row.threshhold) => "threshold" \notin DOMAIN rule
                    /\ Blank(row.ignore_null) => "ignoreNull" \notin DOMAIN rule
                    /\ Blank(row.range_min) => "minValue" \notin DOMAIN nested
                    /\ Blank(row.range_max) => "maxValue" \notin DOMAIN nested
                    /\ Blank(row.strict_min) => "strictMinEnabled" \notin DOMAIN nested
                    /\ Blank(row.strict_max) => "strictMaxEnabled" \notin DOMAIN nested
                    /\ Blank(row.sql) => DOMAIN nested \cap {"sqlExpression", "sqlStatement"} = {}
                    /\ Blank(row.regex) => "regex" \notin DOMAIN nested
                    /\ Blank(row.set_values) => "values" \notin DOMAIN nested

ExportCells(d) ==
    <<MatchedCell(d, "export_project"), MatchedCell(d, "export_dataset"),
      MatchedCell(d, "export_table")>>

C8_DocumentName ==
    \A d \in DOMAIN uploaded :
        LET k == CreatingTriple(d)
            schedule == MatchedCell(d, "schedule_interval")
            stem == k[1] \o <<"_", "_">> \o k[2] \o <<"_", "_">> \o k[3]
        IN  uploaded[d].name =
                IF Blank(schedule) THEN stem \o YAML_SUFFIX
                ELSE stem \o <<"_", "_">> \o Replace(Replace(schedule, "*", STAR), " ", <<"_">>)
                     \o YAML_SUFFIX

----------------------------------------------------------------------------
(* The order of the checks.  A slot is one check at one place, written as  *)
(* the message that reports it.                                            *)

\* a flag cell validate accepts: a tri-state reading, or the text NAN in any case
FlagAccepted(v) == FlagReading(v) # "other" \/ Upper(Strip(v)) = NAN_

\* whether one check, taken alone, is violated at a row
Violated(slot) ==
    LET rows == IF slot.sheet = "ColumnLevel" THEN column_rows ELSE table_rows
        row == rows[slot.row]
        c == slot.check
    IN  CASE c = "MissingColumns" ->
                IF slot.sheet = "ColumnLevel"
                THEN ~(column_level_columns \subseteq column_level_df.columns)
                ELSE ~(table_level_columns \subseteq table_level_df.columns)
          [] c = "NoRecords" -> column_rows = <<>>
          [] c = "MissingRequiredValues" ->
                ~(Present(row.project) /\ Present(row.dataset) /\ Present(row.table))
          [] c = "NoColumnLevelRecord" ->
                ~\E j \in DOMAIN column_rows : GroupKey(column_rows[j]) = GroupKey(row)
          [] c = "DQRule" -> RuleType(row) \notin valid_dq_rules
          [] c = "IgnoreNullNotNull" ->
                RuleType(row) = NOT_NULL /\ FlagReading(row.ignore_null) = "true"
          [] c = "IgnoreNullFlag" -> ~FlagAccepted(row.ignore_null)
          [] c = "ThreshholdNumber" ->
                Present(row.threshhold) /\ Float(row.threshhold).kind = "ValueError"
          [] c = "ThreshholdRange" ->
                /\ Present(row.threshhold)
                /\ Float(row.threshhold).kind # "ValueError"
                /\ ~InClosedRange(Float(row.threshhold), 1)
          [] c = "StrictMinFlag" -> ~FlagAccepted(row.strict_min)
          [] c = "StrictMaxFlag" -> ~FlagAccepted(row.strict_max)
          [] c = "StrictMinNeedsMin" ->
                FlagReading(row.strict_min) = "true" /\ ~Present(row.range_min)
          [] c = "StrictMaxNeedsMax" ->
                FlagReading(row.strict_max) = "true" /\ ~Present(row.range_max)
          [] c = "RangeMinMax" ->
                RuleType(row) = RANGE /\ ~(Present(row.range_min) /\ Present(row.range_max))
          [] c = "SetValues" -> RuleType(row) = SET /\ ~Present(row.set_values)
          [] c = "RegularExpression" -> RuleType(row) = REGEX /\ ~Present(row.regex)
          [] c = "SQLExpression" ->
                RuleType(row) \in {SQL_ROW, SQL_TABLE, SQL_ASSERT} /\ ~Present(row.sql)
          [] c = "DataSamplingNumber" ->
                Present(row.data_sampling) /\ Float(row.data_sampling).kind = "ValueError"
          [] c = "DataSamplingRange" ->
                /\ Present(row.data_sampling)
                /\ Float(row.data_sampling).kind # "ValueError"
                /\ ~InClosedRange(Float(row.data_sampling), 100)

\* the slots of a row loop: every row in sheet order, and at each row the checks in order
RowSlots(sheet, rows, checks) ==
    [n \in 1..(Len(rows) * Len(checks)) |->
        Message(checks[((n - 1) % Len(checks)) + 1], sheet, ((n - 1) \div Len(checks)) + 1)]

\* the sheet-level checks in the order of section 4.1, and in the order validate runs them
StatedSheetSlots ==
    <<Message("MissingColumns", "ColumnLevel", 0), Message("MissingColumns", "TableLevel", 0),
      Message("NoRecords", "ColumnLevel", 0)>>
SheetSlots ==
    <<Message("MissingColumns", "ColumnLevel", 0), Message("NoRecords", "ColumnLevel", 0),
      Message("MissingColumns", "TableLevel", 0)>>

\* the ColumnLevel row checks in the order of section 4.1, and in the order validate runs them
StatedRuleChecks ==
    <<"DQRule", "IgnoreNullNotNull", "IgnoreNullFlag", "StrictMinFlag", "StrictMaxFlag",
      "ThreshholdNumber", "ThreshholdRange", "StrictMinNeedsMin", "StrictMaxNeedsMax",
      "RangeMinMax", "SetValues", "RegularExpression", "SQLExpression">>
RuleChecks ==
    <<"DQRule", "IgnoreNullNotNull", "IgnoreNullFlag", "ThreshholdNumber", "ThreshholdRange",
      "StrictMinFlag", "StrictMaxFlag", "StrictMinNeedsMin", "StrictMaxNeedsMax",
      "RangeMinMax", "SetValues", "RegularExpression", "SQLExpression">>

AllSlots(sheet_slots, rule_checks) ==
    sheet_slots
    \o RowSlots("ColumnLevel", column_rows, <<"MissingRequiredValues">>)
    \o RowSlots("TableLevel", table_rows, <<"MissingRequiredValues">>)
    \o RowSlots("TableLevel", table_rows, <<"NoColumnLevelRecord">>)
    \o RowSlots("ColumnLevel", column_rows, rule_checks)
    \o RowSlots("TableLevel", table_rows, <<"DataSamplingNumber", "DataSamplingRange">>)

\* validate reports the first violated slot of the sequence
ReportsFirstOf(slots) ==
    \A n \in DOMAIN slots :
        Violated(slots[n]) /\ (\A m \in 1..(n - 1) : ~Violated(slots[m])) =>
            ~valid_excel_sheet /\ validation_message = slots[n]

\* C9 as stated: validate stops at the first violation in the order schema of both
\* sheets, ColumnLevel non-empty, identity fields, cross-sheet check, the row checks (rule
\* type, NOT_NULL with ignore-null, tri-state flags, threshold, strict-min/max presence,
\* RANGE, SET, REGEX, SQL) and sampling, and its message names that sheet and row.
C9_StatedOrder == validated => ReportsFirstOf(AllSlots(StatedSheetSlots, StatedRuleChecks))

\* C9 as amended: the order is ColumnLevel schema, ColumnLevel non-empty, TableLevel schema,
\* identity fields, cross-sheet check, then per ColumnLevel row: rule type, NOT_NULL with
\* ignore-null, ignore-null flag, threshold, strict-min flag, strict-max flag, strict-min
\* and strict-max presence, RANGE, SET, REGEX, SQL; then sampling.
C9_CheckOrder == validated => ReportsFirstOf(AllSlots(SheetSlots, RuleChecks))

\* validate reported a threshold out of range on a row whose strict-max flag is no flag
C9_Witness ==
    /\ validated
    /\ validation_message.check = "ThreshholdRange"
    /\ Violated(Message("StrictMaxFlag", "ColumnLevel", validation_message.row))

\* a RANGE row without a minimum or without a maximum
RangeRowIncomplete(i) == Violated(Message("RangeMinMax", "ColumnLevel", i))

\* C10 as stated: for every RANGE row with an empty min or max, validate fails with the
\* RANGE-specific message for that row.
C10_RangeMessage ==
    validated =>
        \A i \in DOMAIN column_rows :
            RangeRowIncomplete(i) =>
                ~valid_excel_sheet
                /\ validation_message = Message("RangeMinMax", "ColumnLevel", i)

\* no check that validate runs before the RANGE check of row i is violated
NothingBeforeRangeCheck(i) ==
    LET slots == AllSlots(SheetSlots, RuleChecks)
    IN  \A n \in DOMAIN slots :
            Violated(slots[n]) =>
                \E m \in 1..n : slots[m] = Message("RangeMinMax", "ColumnLevel", i)

\* C10 as amended: for every RANGE row with an empty min or max, validate fails; its message
\* is the RANGE-specific message for that row when no check that validate runs earlier is
\* violated, and the message of the first such check otherwise.
C10_RangeRowRejected ==
    validated =>
        \A i \in DOMAIN column_rows :
            RangeRowIncomplete(i) =>
                /\ ~valid_excel_sheet
                /\ NothingBeforeRangeCheck(i) <=>
                        validation_message = Message("RangeMinMax", "ColumnLevel", i)

\* validate reported the RANGE-specific message for a row that has a minimum and no maximum
C10_Witness ==
    /\ validated
    /\ validation_message.check = "RangeMinMax"
    /\ Present(column_rows[validation_message.row].range_min)

----------------------------------------------------------------------------
(* Order of the rules of a document.                                       *)

\* the ColumnLevel rows of a triple, in sheet order
RowsOfTriple(k) == SelectSeq(filled_column_rows, LAMBDA row : GroupKey(row) = k)

\* the column a rule names, empty when the rule names none
RuleColumn(rule) == IF "column" \in DOMAIN rule THEN rule["column"] ELSE <<>>

\* the rules of document d are the rows of triple k, one rule per row, in sheet order
RulesFollowRows(d, k) ==
    /\ Len(Rules(d)) = Len(RowsOfTriple(k))
    /\ \A i \in DOMAIN Rules(d) : RuleColumn(Rules(d)[i]) = RowsOfTriple(k)[i].column

\* C11: in every output document the rules appear in the same relative order as their
\* source rows in the ColumnLevel sheet, and the rules list has exactly one entry for each
\* row of the document's group.
C11_OrderPreserved ==
    compiled => \A d \in DOMAIN uploaded : \E k \in TriplesOfDocument(d) : RulesFollowRows(d, k)

----------------------------------------------------------------------------
(* The tri-state flags in the validator and in the compiler.               *)

\* what a mapping holds under a flag's key: "true", "false", or "empty" without the key
FlagEmitted(mapping, key) ==
    IF key \notin DOMAIN mapping THEN "empty"
    ELSE IF mapping[key] THEN "true" ELSE "false"

\* the flag cell is emitted as the validator reads it
FlagAgrees(cell, mapping, key) ==
    FlagReading(cell) \in {"true", "false", "empty"} =>
        FlagEmitted(mapping, key) = FlagReading(cell)

\* C13: for every accepted input, a flag (ignore-null, strict-min, strict-max) that the
\* validator reads as TRUE (case-insensitive, trimmed) is emitted as boolean true under
\* ignoreNull / strictMinEnabled / strictMaxEnabled, a flag read as FALSE is emitted as
\* boolean false, and a flag read as empty is omitted.
C13_FlagsAgree ==
    compiled =>
        \A d \in DOMAIN uploaded : \A i \in DOMAIN Rules(d) :
            /\ FlagAgrees(SourceRow(d, i).ignore_null, Rules(d)[i], "ignoreNull")
            /\ FlagAgrees(SourceRow(d, i).strict_min, Nested(d, i), "strictMinEnabled")
            /\ FlagAgrees(SourceRow(d, i).strict_max, Nested(d, i), "strictMaxEnabled")

----------------------------------------------------------------------------
(* The driver over the spreadsheets of a location.                         *)

\* the candidate spreadsheets of the listing
Candidates == {i \in DOMAIN blobs : EndsWith(blobs[i].name, XLSX)}

\* validate_excel returns ok = true for candidate i
Accepted(i) == ValidateExcelFile(blobs[i])[1]

\* the run has ended, by returning from main or by an exception leaving it
RunEnded == pc \in {"done", Raises}

\* the loop of list_all_valid_excels has validated candidate i
WasValidated(i) == file > i

\* the place of candidate i in valid_excel_list, 0 when it is not in the list
Position(i) ==
    IF \E e \in DOMAIN valid_excel_list : valid_excel_list[e] = blobs[i].name
    THEN CHOOSE e \in DOMAIN valid_excel_list : valid_excel_list[e] = blobs[i].name
    ELSE 0

\* process_excel_file has been called on candidate i
WasCompiled(i) ==
    /\ Position(i) # 0
    /\ \/ Position(i) < elements
       \/ Position(i) = elements /\ pc \in {"write", Raises}

\* every document of candidate i has been written
WasWritten(i) == Position(i) # 0 /\ Position(i) < elements

\* the writing of a document of candidate i failed
FailedWriting(i) == pc = Raises /\ Position(i) = elements

\* a line of the given kind has been printed
Logged(what) == \E j \in DOMAIN printed : printed[j].what = what

\* the validation message of candidate i has been printed
LoggedRejection(i) ==
    \E j \in DOMAIN printed :
        printed[j] = Line("validation_message", blobs[i].name, ValidateExcelFile(blobs[i])[2])

\* C12: the driver processes each spreadsheet independently: a validation failure or a
\* failure while writing a document of one spreadsheet is logged and does not block the
\* others, so that when the run ends every candidate has been validated and every accepted
\* one compiled and written; and no spreadsheet is compiled unless validate returned
\* ok = true for it earlier in the run.
C12_SpreadsheetsIndependent ==
    /\ (validate_directory(blobs)[1] /\ RunEnded) =>
            \A i \in Candidates :
                /\ WasValidated(i)
                /\ ~Accepted(i) => LoggedRejection(i)
                /\ Accepted(i) => WasWritten(i) \/ (FailedWriting(i) /\ Logged("ErrorWriting"))
    /\ \A i \in Candidates : WasCompiled(i) => WasValidated(i) /\ Accepted(i)

====
